---------------------------- MODULE Spec2Model ----------------------------
(***************************************************************************)
(* Heading-turn controllers of Cyberdragons-Unearthed-2025:                *)
(*   PDuty   src/pybricks-all/p_turn.py        P law, duty cycle           *)
(*   PSpeed  src/pybricks_all/p_turn_speed.py  P law, angular rate         *)
(*   PI      src/pybricks_all/pi_turn.py       PI law, duty cycle          *)
(*   PID     src/pybricks_all/pid_turn.py      PID law, duty cycle         *)
(*                                                                         *)
(* Headings and errors are whole degrees.  Every other real quantity       *)
(* (gains, duty cycles, speeds, integral sums, seconds) is kept in         *)
(* thousandths, so 0.4 is 400 and a duty cycle of 22 is 22000; the         *)
(* controllers' arithmetic is then exact integer arithmetic.               *)
(***************************************************************************)
EXTENDS Integers, Sequences, FiniteSets, TLC

\* ------------------------------------------------------------- bounds
\* Turn requests explored in one run.
MaxTurns == 2
\* Tick budget of the speed-mode timeout, in ticks (the source's max_ms is
\* 8000 ms = 1600 ticks of dt_ms; the model scales the budget down).
MaxTicks == 3
\* Loop iterations explored in a loop that has no timeout of its own.
MaxLoopTicks == 4
\* Ticks explored, and the speed-mode budget in ticks, when the sensor is
\* the simulated one that halves the remaining error on every tick.
SimTicks == 12
\* Ticks within which a halving sensor brings any error of at most 180
\* degrees inside the tolerance for stable_counts_needed samples.
ConvTicks == 10
\* Ticks explored per turn in a program with two tasks.
MultiTicks == 1
\* Largest magnitude of an argument handed to _wrap_0_360 on its own.
MaxDeg == 800

\* Sensor samples (degrees, the hub's 0..359) and relative turn requests.
Headings == {0, 5, 10, 180, 350}
Deltas == {10, 20, -10, 350}
\* Base push arguments handed to the PI turn (c_parameter).
CParams == {0, 25000}

\* ---------------------------------------------------- tuning constants
\* p_turn.py
p_turn_k == 400
p_turn_c == 22000
tolerance == 1
dt_ms == 5
stable_counts_needed == 2
\* p_turn_speed.py
p_turn_k_speed == 5000
min_speed == 50000
max_speed == 720000
NEAR_DEG == 8
MIN_SPEED_NEAR == 40000
\* pi_turn.py
kp_turn == 1000
ki_turn == 400
sum_cap == 30000
pi_p_turn_c == 0
pi_min_rate == 30000
dt_s == 5
\* pid_turn.py
kp == 1000
ki == 500
kd == 0
dt == 10
min_rate == 22000
error_threshold == 1
\* motor.dc range
DcMax == 100000
\* degrees in a full turn
FullTurn == 360

Variants == {"PDuty", "PSpeed", "PI", "PID"}

\* ------------------------------------------------------------ helpers
Abs(x) == IF x < 0 THEN -x ELSE x

\* p_turn.py: deg % 360 (Python's %, result in [0, 360)).
p_turn_wrap_0_360(deg) == deg % 360

\* Mutant of _wrap_0_360: the wrap is left out.
_wrap_0_360_nowrap(deg) == deg

\* p_turn_speed.py, pi_turn.py, pid_turn.py: wraps only beyond +-360.
_wrap_0_360(deg) == IF deg >= 360 \/ deg <= -360 THEN deg % 360 ELSE deg

Wrap(variant, deg) ==
    IF variant = "PDuty" THEN p_turn_wrap_0_360(deg) ELSE _wrap_0_360(deg)

\* Mutant of _wrapped_err: the raw difference, not wrapped.
_wrapped_err_raw(cur, desired) == desired - cur

\* Mutant of _wrapped_err: the half turn is reported as +180.
_wrapped_err_up(cur, desired) == ((desired - cur + 179) % 360) - 179

\* p_turn.py, p_turn_speed.py: the shortest-path error, in [-180, 180).
_wrapped_err(cur, desired) == ((desired - cur + 180) % 360) - 180

\* The error convention of each file: shortest path in the P files, the raw
\* difference in the PI and PID files.
Err(variant, cur, desired) ==
    IF variant \in {"PDuty", "PSpeed"} THEN _wrapped_err(cur, desired)
    ELSE desired - cur

_clamp_dc(x) == IF x > DcMax THEN DcMax ELSE IF x < -DcMax THEN -DcMax ELSE x

\* Mutant of _clamp: the upper limit is not applied.
_clamp_nohi(x, lo, hi) == IF x < lo THEN lo ELSE x

_clamp(x, lo, hi) == IF x > hi THEN hi ELSE IF x < lo THEN lo ELSE x

\* Motor commands: the last call made on a motor.
Dc(v) == [op |-> "dc", val |-> v]
Run(v) == [op |-> "run", val |-> v]
Hold == [op |-> "hold", val |-> 0]
NoCmd == [op |-> "none", val |-> 0]

\* sgn = 1 if err > 0 else -1
SgnErr(err) == IF err > 0 THEN 1 ELSE -1

\* if pid >= 0: sgn = 1 else: sgn = -1
SgnPid(pid) == IF pid >= 0 THEN 1 ELSE -1


\* ------------------------------------------------- one tick's actuation
\* Each operator is the drive branch of one loop body: from the tick's error
\* it gives the control value before base push, floor and clamp (ctl) and
\* the commands sent to the left (l) and right (r) motor.

\* Mutant of PDutyDrive: c is a floor of the magnitude instead of an added
\* base push.
PDutyDrive_floor(err) ==
    LET p == p_turn_k * Abs(err)
        duty == _clamp_dc(IF p < p_turn_c THEN p_turn_c ELSE p)
        sgn == SgnErr(err)
    IN  [ctl |-> p_turn_k * Abs(err),
         l |-> Dc(_clamp_dc(sgn * duty)),
         r |-> Dc(_clamp_dc(-sgn * duty))]

\* p_turn.py, heading loops: duty = clamp(k*|err| + c), both wheels.
PDutyDrive(err) ==
    LET base == p_turn_k * Abs(err) + p_turn_c
        duty == _clamp_dc(base)
        sgn == SgnErr(err)
    IN  [ctl |-> p_turn_k * Abs(err),
         l |-> Dc(_clamp_dc(sgn * duty)),
         r |-> Dc(_clamp_dc(-sgn * duty))]

\* Mutant of PDutyPivotDrive: the pivot wheel is driven like the other one.
PDutyPivotDrive_both(err, pivot_left) == PDutyDrive(err)

\* p_turn.py, pivot loops: the pivot wheel gets dc(0), the other the duty.
PDutyPivotDrive(err, pivot_left) ==
    LET base == p_turn_k * Abs(err) + p_turn_c
        duty == _clamp_dc(base)
        sgn == SgnErr(err)
    IN  IF pivot_left
        THEN [ctl |-> p_turn_k * Abs(err),
              l |-> Dc(0), r |-> Dc(_clamp_dc(-sgn * duty))]
        ELSE [ctl |-> p_turn_k * Abs(err),
              l |-> Dc(_clamp_dc(sgn * duty)), r |-> Dc(0)]

\* p_turn_speed.py, _p_turn_heading_sync: min_eff is computed and not used,
\* the speed is k*|err| + min_speed.
PSpeedDriveSync(err) ==
    LET abs_err == Abs(err)
        min_eff == IF abs_err < NEAR_DEG THEN MIN_SPEED_NEAR ELSE min_speed
        speed == _clamp(p_turn_k_speed * Abs(err) + min_speed,
                        -max_speed, max_speed)
        sgn == SgnErr(err)
    IN  [ctl |-> p_turn_k_speed * abs_err,
         l |-> Run(sgn * speed), r |-> Run(-sgn * speed)]

\* p_turn_speed.py, _p_turn_heading_async: the speed is k*|err| + min_eff.
PSpeedDriveAsync(err) ==
    LET abs_err == Abs(err)
        min_eff == IF abs_err < NEAR_DEG THEN MIN_SPEED_NEAR ELSE min_speed
        speed == _clamp(p_turn_k_speed * abs_err + min_eff,
                        -max_speed, max_speed)
        sgn == SgnErr(err)
    IN  [ctl |-> p_turn_k_speed * abs_err,
         l |-> Run(sgn * speed), r |-> Run(-sgn * speed)]

\* p_turn_speed.py, pivot loops (sync and async are the same body).
PSpeedPivotDrive(err, pivot_left) ==
    LET abs_err == Abs(err)
        min_eff == IF abs_err < NEAR_DEG THEN MIN_SPEED_NEAR ELSE min_speed
        speed == _clamp(p_turn_k_speed * abs_err + min_eff,
                        -max_speed, max_speed)
        sgn == SgnErr(err)
    IN  IF pivot_left
        THEN [ctl |-> p_turn_k_speed * abs_err,
              l |-> Hold, r |-> Run(-sgn * speed)]
        ELSE [ctl |-> p_turn_k_speed * abs_err,
              l |-> Run(sgn * speed), r |-> Hold]

\* pi_turn.py: the integral sum after this tick's error, clamped.
PIErrSum(err, err_sum) ==
    LET s == err_sum + err * dt_s
    IN  IF s > sum_cap THEN sum_cap ELSE IF s < -sum_cap THEN -sum_cap ELSE s

\* Mutant of PIDrive: both motors get the same command.
PIDrive_same(err, err_sum, base_push) ==
    LET p_term == kp_turn * err
        sum == PIErrSum(err, err_sum)
        i_term == (ki_turn * sum) \div 1000
        pid == p_term + i_term
        sgn == SgnPid(pid)
        mag0 == Abs(pid) + base_push
        mag == IF mag0 < pi_min_rate THEN pi_min_rate ELSE mag0
        duty == _clamp_dc(mag)
    IN  [ctl |-> pid, err_sum |-> sum, iterm |-> i_term,
         l |-> Dc(sgn * duty), r |-> Dc(sgn * duty)]

\* pi_turn.py, heading loops: pid = P + I, magnitude |pid| + base_push,
\* floored at min_rate and clamped.  ki_turn * sum is exact: the sum is a
\* multiple of dt_s = 5 thousandths.
PIDrive(err, err_sum, base_push) ==
    LET p_term == kp_turn * err
        sum == PIErrSum(err, err_sum)
        i_term == (ki_turn * sum) \div 1000
        pid == p_term + i_term
        sgn == SgnPid(pid)
        mag0 == Abs(pid) + base_push
        mag == IF mag0 < pi_min_rate THEN pi_min_rate ELSE mag0
        duty == _clamp_dc(mag)
    IN  [ctl |-> pid, err_sum |-> sum, iterm |-> i_term,
         l |-> Dc(sgn * duty), r |-> Dc(-sgn * duty)]

\* pi_turn.py, pivot loops: P only, floored at min_rate.
PIPivotDrive(err, pivot_left) ==
    LET base0 == (kp_turn * Abs(err)) + pi_p_turn_c
        base == IF base0 < pi_min_rate THEN pi_min_rate ELSE base0
        duty == _clamp_dc(base)
        sgn == SgnErr(err)
    IN  IF pivot_left
        THEN [ctl |-> kp_turn * Abs(err), l |-> Dc(0), r |-> Dc(-sgn * duty)]
        ELSE [ctl |-> kp_turn * Abs(err), l |-> Dc(sgn * duty), r |-> Dc(0)]

\* pid_turn.py, sub_pid's output shaping: the if/elif chain on pid.
PidShape(pid) ==
    IF pid > DcMax THEN DcMax
    ELSE IF pid < min_rate /\ pid >= 0 THEN min_rate
    ELSE IF pid < -DcMax THEN -DcMax
    ELSE IF pid > -min_rate /\ pid <= 0 THEN -min_rate
    ELSE pid

\* pid_turn.py, sub_pid: the integral term uses the sum before its clamp;
\* the stored sum is clamped afterwards.  error * dt and ki * sum are exact
\* (the sum is a multiple of dt = 10 thousandths).
sub_pid(error_curr, error_prev, error_sum) ==
    LET proportional == kp * error_curr
        sum == error_sum + error_curr * dt
        integral == (ki * sum) \div 1000
        dedt == ((error_curr - error_prev) * 1000 * 1000) \div dt
        derivative == (kd * dedt) \div 1000
        pid == proportional + integral + derivative
        capped == IF sum > sum_cap THEN sum_cap
                  ELSE IF sum < -sum_cap THEN -sum_cap ELSE sum
        out == PidShape(pid)
    IN  [ctl |-> pid, err_sum |-> capped, iterm |-> integral,
         l |-> Dc(out), r |-> Dc(-out)]


\* -------------------------------------------------------------- state
VARIABLES
    variant,           \* the controller file the program runs
    previous_heading,  \* p_turn.py, p_turn_speed.py: history of targets
    prev_heading_num,  \*   index of the tracked heading in it (0-based)
    target_heading,    \*   module global set by the incremental wrappers
    current_heading,   \* pi_turn.py, pid_turn.py: the tracked heading
    left_motor,        \* last command received by the left motor
    right_motor,       \* last command received by the right motor
    turn,              \* the running (or last) turn's arguments and locals
    obs,               \* what an observer of the run has recorded
    nturns,            \* turn requests made so far
    sim,               \* the simulated heading sensor, when one is fitted
    calc,              \* a helper function's arguments and what it returned
    other              \* a second task of the program, when it has one

vars == <<variant, previous_heading, prev_heading_num, target_heading,
          current_heading, left_motor, right_motor, turn, obs, nturns,
         sim, calc, other>>

tracked == <<previous_heading, prev_heading_num, target_heading,
             current_heading>>

PModules == {"PDuty", "PSpeed"}

\* The baseline a relative turn reads: previous_heading[prev_heading_num]
\* (a 0-based Python index) in the P files, current_heading in the others.
TrackedHeading ==
    IF variant \in PModules THEN previous_heading[prev_heading_num + 1]
    ELSE current_heading

\* The locals of a turn before its first tick.
NewTurn(kind, mode, pivot_left, base_push, target, turn_amount, relative) ==
    [pc |-> "loop", turn_amount |-> turn_amount, kind |-> kind,
     mode |-> mode, pivot_left |-> pivot_left,
     base_push |-> base_push, target |-> target,
     desired |-> Wrap(variant, target), relative |-> relative,
     stable_counts |-> 0, elapsed |-> 0, err_sum |-> 0, error_prev |-> 0,
     err |-> 0, ctl |-> 0, iterm |-> 0, drove |-> FALSE,
     dl |-> NoCmd, dr |-> NoCmd]

\* The observer's record at the start of a turn: ticks that reached their
\* wait (nticks), ticks that issued a drive command (drives), in-tolerance
\* samples seen (intol), consecutive in-tolerance samples up to the latest
\* one (streak), the baseline the request read, how the turn ended, and the
\* target of the last relative turn that returned (0 before any), whether
\* the tracked heading has been reset since the last request (reset), and
\* whether the turn is the first one requested after a reset (after_reset).
NewObs(baseline) ==
    [nticks |-> 0, drives |-> 0, intol |-> 0, streak |-> 0,
     baseline |-> baseline, outcome |-> "none",
     last_target |-> obs.last_target,
     reset |-> FALSE, after_reset |-> obs.reset]

\* The timeout budget of p_turn_speed.py in milliseconds, scaled to
\* MaxTicks ticks (SimTicks ticks under the simulated sensor, MultiTicks
\* ticks in a program with two tasks).
max_ms ==
    (CASE sim.on -> SimTicks [] other.on -> MultiTicks [] OTHER -> MaxTicks)
        * dt_ms

\* No helper function is being applied.
NoCalc == [fn |-> "none", a |-> 0, b |-> 0, out |-> 0, back |-> 0,
           done |-> FALSE]

\* The program has one task only.
NoOther ==
    [on |-> FALSE, active |-> FALSE,
     turn |-> [NewTurn("heading", "sync", FALSE, 0, 0, 0, FALSE)
                 EXCEPT !.pc = "idle"],
     obs |-> [nticks |-> 0, drives |-> 0, intol |-> 0, streak |-> 0,
              baseline |-> 0, outcome |-> "none", last_target |-> 0,
              reset |-> FALSE, after_reset |-> FALSE]]

\* A program runs one of the four controller files; the module state is what
\* the files assign at import (each file keeps its own tracked heading).
Loaded ==
    /\ variant \in Variants
    /\ previous_heading = <<0>>
    /\ prev_heading_num = 0
    /\ target_heading = 0
    /\ current_heading = 0
    /\ left_motor = NoCmd
    /\ right_motor = NoCmd
    /\ turn = [NewTurn("heading", "sync", FALSE, 0, 0, 0, FALSE)
                 EXCEPT !.pc = "idle"]
    /\ obs = [nticks |-> 0, drives |-> 0, intol |-> 0, streak |-> 0,
              baseline |-> 0, outcome |-> "none", last_target |-> 0,
              reset |-> FALSE, after_reset |-> FALSE]
    /\ nturns = 0

\* The sensor is the environment's: any sample may follow any other.
Init ==
    /\ Loaded
    /\ sim = [on |-> FALSE, heading |-> 0]
    /\ calc = NoCalc
    /\ other = NoOther

\* A sample taken by a loop, as the observer records it.
Sampled(o, in_tol) ==
    [o EXCEPT !.intol = IF in_tol THEN @ + 1 ELSE @,
              !.streak = IF in_tol THEN @ + 1 ELSE 0]

\* Mutant of StopCmd: the duty-cycle files stop at the floor duty, not at 0.
StopCmd_floor(v) == IF v \in {"PSpeed", "PID"} THEN Hold ELSE Dc(p_turn_c)

\* The command that stops a motor at the end of a turn: dc(0) in p_turn.py
\* and pi_turn.py, hold() in p_turn_speed.py and pid_turn.py.
StopCmd(v) == IF v \in {"PSpeed", "PID"} THEN Hold ELSE Dc(0)

\* Mutant of TimedOut: the budget is exceeded, not reached.
TimedOut_late(elapsed) == elapsed > max_ms

\* The timeout test after a tick's wait (p_turn_speed.py only).
TimedOut(elapsed) == elapsed >= max_ms

\* Mutant of Finish: the P heading loops append the target and leave the
\* index where it was.
Finish_noincr(t, o, outcome) ==
    /\ left_motor' = StopCmd(variant)
    /\ right_motor' = StopCmd(variant)
    /\ IF variant \in PModules /\ t.kind = "heading"
       THEN /\ previous_heading' = Append(previous_heading, t.desired)
            /\ prev_heading_num' = prev_heading_num
       ELSE UNCHANGED <<previous_heading, prev_heading_num>>
    /\ IF variant \notin PModules /\ t.relative
       THEN current_heading' = t.target
       ELSE UNCHANGED current_heading
    /\ turn' = [t EXCEPT !.pc = "done"]
    /\ obs' = [o EXCEPT !.outcome = outcome,
                         !.last_target = IF t.relative THEN t.target ELSE @]
    /\ UNCHANGED <<variant, target_heading>>

\* The loop was left: both motors are stopped, the tracked heading is
\* updated (the P heading loops append the target; the PI and PID wrappers
\* assign current_heading after the loop returns; the pivot functions of the
\* P files and a direct pivot call leave it alone), the call returns.
Finish(t, o, outcome) ==
    /\ left_motor' = StopCmd(variant)
    /\ right_motor' = StopCmd(variant)
    /\ IF variant \in PModules /\ t.kind = "heading"
       THEN /\ previous_heading' = Append(previous_heading, t.desired)
            /\ prev_heading_num' = prev_heading_num + 1
       ELSE UNCHANGED <<previous_heading, prev_heading_num>>
    /\ IF variant \notin PModules /\ t.relative
       THEN current_heading' = t.target
       ELSE UNCHANGED current_heading
    /\ turn' = [t EXCEPT !.pc = "done"]
    /\ obs' = [o EXCEPT !.outcome = outcome,
                         !.last_target = IF t.relative THEN t.target ELSE @]
    /\ UNCHANGED <<variant, target_heading>>

\* The loop goes on: the tick's commands reach the motors.
Continue(t, o, l, r) ==
    /\ left_motor' = l
    /\ right_motor' = r
    /\ turn' = t
    /\ obs' = o
    /\ UNCHANGED <<variant, tracked>>

\* Mutant of AfterActuation: the cooperative loops do not suspend.
AfterActuation_noyield(t, o, l, r) == Continue(t, o, l, r)

\* After a tick's actuation: the cooperative loops suspend in wait(dt_ms);
\* the blocking loops go on at once, p_turn_speed.py after counting the
\* elapsed time and testing the timeout.
AfterActuation(t, o, l, r) ==
    IF t.mode = "async"
    THEN Continue([t EXCEPT !.pc = "yield"], o, l, r)
    ELSE IF variant = "PSpeed"
    THEN LET t2 == [t EXCEPT !.elapsed = @ + dt_ms]
         IN  IF TimedOut(t2.elapsed)
             THEN Finish(t2, o, "TimedOut")
             ELSE Continue(t2, o, l, r)
    ELSE Continue(t, o, l, r)

\* Loops with no timeout of their own are explored for MaxLoopTicks ticks
\* (SimTicks ticks under the simulated sensor, MultiTicks ticks per task in
\* a program with two tasks).
Explored ==
    \/ variant = "PSpeed"
    \/ obs.nticks < (CASE sim.on -> SimTicks
                        [] other.on -> MultiTicks
                        [] OTHER -> MaxLoopTicks)


\* ---------------------------------------------------- turn requests
\* A request is made when no turn is running (the callers compose turns
\* sequentially).
\* In a program with two tasks (multitask) nothing in the files keeps the
\* second task from requesting a turn while the first one's turn is
\* suspended in its wait.
CanStart ==
    /\ nturns < MaxTurns
    /\ \/ turn.pc \in {"idle", "done"}
       \/ other.on /\ ~other.active /\ turn.pc = "yield"

\* What a request leaves behind: the suspended turn of the other task, if
\* there is one.
Park ==
    /\ other' = IF turn.pc = "yield"
                THEN [other EXCEPT !.active = TRUE, !.turn = turn,
                                   !.obs = obs]
                ELSE other
    /\ UNCHANGED <<sim, calc>>

Begin(t, baseline) ==
    /\ turn' = t
    /\ obs' = NewObs(baseline)
    /\ nturns' = nturns + 1
    /\ UNCHANGED <<variant, previous_heading, prev_heading_num,
                   current_heading, left_motor, right_motor>>

\* p_turn.py, p_turn_speed.py: p_turn_incremental_sync / _async.
p_turn_incremental(turn_amount, mode) ==
    /\ CanStart
    /\ variant \in PModules
    /\ LET target == Wrap(variant, previous_heading[prev_heading_num + 1]
                                   + turn_amount)
       IN  /\ target_heading' = target
           /\ Begin(NewTurn("heading", mode, FALSE, 0, target, turn_amount,
                            TRUE),
                    previous_heading[prev_heading_num + 1])

\* p_turn.py, p_turn_speed.py: p_turn_pivot_incremental_sync / _async.
p_turn_pivot_incremental(turn_amount, pivot_left, mode) ==
    /\ CanStart
    /\ variant \in PModules
    /\ LET target == Wrap(variant, previous_heading[prev_heading_num + 1]
                                   + turn_amount)
       IN  /\ target_heading' = target
           /\ Begin(NewTurn("pivot", mode, pivot_left, 0, target,
                            turn_amount, TRUE),
                    previous_heading[prev_heading_num + 1])

\* pi_turn.py: p_turn_incremental_sync / _async (target_heading is a local
\* there; current_heading is assigned when the loop has returned).
pi_turn_incremental(turn_amount, mode, c_parameter) ==
    /\ CanStart
    /\ variant = "PI"
    /\ LET target == _wrap_0_360(current_heading + turn_amount)
       IN  /\ UNCHANGED target_heading
           /\ Begin(NewTurn("heading", mode, FALSE, c_parameter, target,
                            turn_amount, TRUE),
                    current_heading)

\* pi_turn.py: _p_turn_pivot_sync / _async, which have no incremental
\* wrapper and are called with an absolute heading.
pi_turn_pivot(desired, pivot_left, mode) ==
    /\ CanStart
    /\ variant = "PI"
    /\ UNCHANGED target_heading
    /\ Begin(NewTurn("pivot", mode, pivot_left, 0, desired, 0, FALSE),
             current_heading)

\* Mutant of reset_current_heading: the tracked heading is left as it was.
reset_current_heading_keep ==
    /\ turn.pc \in {"idle", "done"}
    /\ variant = "PI"
    /\ obs' = [obs EXCEPT !.reset = TRUE]
    /\ UNCHANGED <<variant, previous_heading, prev_heading_num,
                   target_heading, current_heading, left_motor, right_motor,
                   turn, nturns>>

\* pi_turn.py: reset_current_heading, called between two turns.
reset_current_heading ==
    /\ turn.pc \in {"idle", "done"}
    /\ variant = "PI"
    /\ current_heading' = 0
    /\ obs' = [obs EXCEPT !.reset = TRUE]
    /\ UNCHANGED <<variant, previous_heading, prev_heading_num,
                   target_heading, left_motor, right_motor, turn, nturns>>

\* pid_turn.py: pid_turn_incremental_async up to the first loop test.  The
\* loop function reads the sensor once before the loop; when that sample is
\* within the threshold the loop body never runs and the call returns.
pid_turn_incremental_async(desired, cur) ==
    /\ CanStart
    /\ variant = "PID"
    /\ LET target == _wrap_0_360(current_heading + desired)
           e == target - cur
           in_tol == Abs(e) <= Abs(error_threshold)
           t == [NewTurn("heading", "async", FALSE, 0, target, desired, TRUE)
                   EXCEPT !.error_prev = e, !.err = e]
           o == Sampled(NewObs(current_heading), in_tol)
       IN  IF in_tol
           THEN /\ Finish(t, o, "Converged")
                /\ nturns' = nturns + 1
           ELSE /\ UNCHANGED target_heading
                /\ turn' = t
                /\ obs' = o
                /\ nturns' = nturns + 1
                /\ UNCHANGED <<variant, previous_heading, prev_heading_num,
                               current_heading, left_motor, right_motor>>


\* ------------------------------------------------------- loop ticks
\* One iteration of a heading loop of p_turn.py, p_turn_speed.py or
\* pi_turn.py: sample, tolerance test with the stable count, actuation,
\* wait.  p_turn_speed.py holds both motors on an in-tolerance sample and
\* drives only otherwise; the other two drive on every tick that does not
\* leave the loop.
HeadingTick(cur) ==
    /\ turn.pc = "loop"
    /\ turn.kind = "heading"
    /\ variant \in {"PDuty", "PSpeed", "PI"}
    /\ Explored
    /\ UNCHANGED nturns
    /\ LET err == Err(variant, cur, turn.desired)
           in_tol == Abs(err) <= tolerance
           sc == IF in_tol THEN turn.stable_counts + 1 ELSE 0
           t1 == [turn EXCEPT !.err = err, !.stable_counts = sc]
           o1 == Sampled(obs, in_tol)
           d == CASE variant = "PDuty" -> PDutyDrive(err)
                  [] variant = "PSpeed" /\ turn.mode = "sync" ->
                         PSpeedDriveSync(err)
                  [] variant = "PSpeed" /\ turn.mode = "async" ->
                         PSpeedDriveAsync(err)
                  [] variant = "PI" ->
                         PIDrive(err, turn.err_sum, turn.base_push)
           held == variant = "PSpeed" /\ in_tol
           t2 == IF held THEN [t1 EXCEPT !.drove = FALSE]
                 ELSE [t1 EXCEPT !.drove = TRUE, !.ctl = d.ctl,
                                 !.dl = d.l, !.dr = d.r,
                                 !.err_sum = IF variant = "PI"
                                             THEN d.err_sum ELSE @,
                                 !.iterm = IF variant = "PI"
                                           THEN d.iterm ELSE @]
           o2 == [o1 EXCEPT !.nticks = @ + 1,
                            !.drives = IF held THEN @ ELSE @ + 1]
       IN  IF in_tol /\ sc >= stable_counts_needed
           THEN Finish(t1, o1, "Converged")
           ELSE IF held
           THEN AfterActuation(t2, o2, Hold, Hold)
           ELSE AfterActuation(t2, o2, d.l, d.r)

\* One iteration of a pivot loop (all three files): the loop is left on
\* the first in-tolerance sample.
PivotTick(cur) ==
    /\ turn.pc = "loop"
    /\ turn.kind = "pivot"
    /\ Explored
    /\ UNCHANGED nturns
    /\ LET err == Err(variant, cur, turn.desired)
           in_tol == Abs(err) <= tolerance
           t1 == [turn EXCEPT !.err = err]
           o1 == Sampled(obs, in_tol)
           d == CASE variant = "PDuty" ->
                         PDutyPivotDrive(err, turn.pivot_left)
                  [] variant = "PSpeed" ->
                         PSpeedPivotDrive(err, turn.pivot_left)
                  [] variant = "PI" -> PIPivotDrive(err, turn.pivot_left)
           t2 == [t1 EXCEPT !.drove = TRUE, !.ctl = d.ctl,
                            !.dl = d.l, !.dr = d.r]
           o2 == [o1 EXCEPT !.nticks = @ + 1, !.drives = @ + 1]
       IN  IF in_tol
           THEN Finish(t1, o1, "Converged")
           ELSE AfterActuation(t2, o2, d.l, d.r)

\* pid_turn.py: one round of multitask(sub_pid(), sub_dt()).  sub_pid has
\* no await: it samples, computes and commands both motors; the round then
\* waits for sub_dt.
PidTick(cur) ==
    /\ turn.pc = "loop"
    /\ variant = "PID"
    /\ Explored
    /\ UNCHANGED nturns
    /\ LET error_curr == turn.desired - cur
           d == sub_pid(error_curr, turn.error_prev, turn.err_sum)
           t2 == [turn EXCEPT !.err = error_curr, !.error_prev = error_curr,
                              !.err_sum = d.err_sum, !.ctl = d.ctl,
                              !.iterm = d.iterm,
                              !.drove = TRUE, !.dl = d.l, !.dr = d.r,
                              !.pc = "yield"]
           o2 == [Sampled(obs, Abs(error_curr) <= Abs(error_threshold))
                    EXCEPT !.nticks = @ + 1, !.drives = @ + 1]
       IN  Continue(t2, o2, d.l, d.r)

\* A suspended loop resumes after its wait.  p_turn_speed.py counts the
\* elapsed time and tests the timeout; pid_turn.py tests its while
\* condition on the error sub_pid left; the others start the next tick.
Resume ==
    /\ turn.pc = "yield"
    /\ UNCHANGED nturns
    /\ CASE variant = "PSpeed" ->
              LET t2 == [turn EXCEPT !.elapsed = @ + dt_ms, !.pc = "loop"]
              IN  IF TimedOut(t2.elapsed)
                  THEN Finish(t2, obs, "TimedOut")
                  ELSE Continue(t2, obs, left_motor, right_motor)
         [] variant = "PID" ->
              IF Abs(turn.err) <= Abs(error_threshold)
              THEN Finish(turn, obs, "Converged")
              ELSE Continue([turn EXCEPT !.pc = "loop"], obs,
                            left_motor, right_motor)
         [] OTHER ->
              Continue([turn EXCEPT !.pc = "loop"], obs,
                       left_motor, right_motor)

Modes == {"sync", "async"}

Next ==
    \/ \E d \in Deltas, m \in Modes :
           p_turn_incremental(d, m) /\ Park
    \/ \E d \in Deltas, pl \in BOOLEAN, m \in Modes :
           p_turn_pivot_incremental(d, pl, m) /\ Park
    \/ \E d \in Deltas, m \in Modes, c \in CParams :
           pi_turn_incremental(d, m, c) /\ Park
    \/ \E h \in Headings, pl \in BOOLEAN, m \in Modes :
           pi_turn_pivot(h, pl, m) /\ Park
    \/ \E d \in Deltas, cur \in Headings :
           pid_turn_incremental_async(d, cur) /\ Park
    \/ \E cur \in Headings : HeadingTick(cur) /\ UNCHANGED <<sim, calc, other>>
    \/ \E cur \in Headings : PivotTick(cur) /\ UNCHANGED <<sim, calc, other>>
    \/ \E cur \in Headings : PidTick(cur) /\ UNCHANGED <<sim, calc, other>>
    \/ Resume /\ UNCHANGED <<sim, calc, other>>
    \/ reset_current_heading /\ UNCHANGED <<sim, calc, other>>

Spec == Init /\ [][Next]_vars

\* ------------------------------------------- runs with a simulated sensor
\* The simulated sensor: on every tick the heading moves half of the
\* remaining shortest-path error toward the turn's target, and reports
\* the heading in [0, 360) like the hub.
SimMove(h, target) == (h + (_wrapped_err(h, target % 360) \div 2)) % 360

SimStep ==
    /\ sim' = [sim EXCEPT !.heading = SimMove(@, turn.desired)]
    /\ UNCHANGED <<calc, other>>

SimInit ==
    /\ Loaded
    /\ sim = [on |-> TRUE, heading |-> 0]
    /\ calc = NoCalc
    /\ other = NoOther

\* The same requests and ticks as in Next, the samples being the simulated
\* sensor's.
SimNext ==
    \/ \E d \in Deltas, m \in Modes :
           p_turn_incremental(d, m) /\ Park
    \/ \E d \in Deltas, pl \in BOOLEAN, m \in Modes :
           p_turn_pivot_incremental(d, pl, m) /\ Park
    \/ \E d \in Deltas, m \in Modes, c \in CParams :
           pi_turn_incremental(d, m, c) /\ Park
    \/ \E h \in Headings, pl \in BOOLEAN, m \in Modes :
           pi_turn_pivot(h, pl, m) /\ Park
    \/ \E d \in Deltas :
           pid_turn_incremental_async(d, sim.heading) /\ Park
    \/ HeadingTick(sim.heading) /\ SimStep
    \/ PivotTick(sim.heading) /\ SimStep
    \/ PidTick(sim.heading) /\ SimStep
    \/ Resume /\ UNCHANGED <<sim, calc, other>>

SimSpec == SimInit /\ [][SimNext]_vars

\* -------------------------------------------------- runs with two tasks
\* The scheduler hands the processor to the other task when the running
\* one is suspended in a wait or has returned from its turn.
Switch ==
    /\ other.active
    /\ turn.pc \in {"yield", "done"}
    /\ turn' = other.turn
    /\ obs' = other.obs
    /\ other' = IF turn.pc = "yield"
                THEN [other EXCEPT !.turn = turn, !.obs = obs]
                ELSE [other EXCEPT !.active = FALSE]
    /\ UNCHANGED <<variant, tracked, left_motor, right_motor, nturns, sim,
                   calc>>

MultiInit ==
    /\ Loaded
    /\ sim = [on |-> FALSE, heading |-> 0]
    /\ calc = NoCalc
    /\ other = [NoOther EXCEPT !.on = TRUE]

MultiNext == Next \/ Switch

MultiSpec == MultiInit /\ [][MultiNext]_vars

\* ------------------------------------------ the history list of the P files
\* p_turn.py and p_turn_speed.py alone, with one task or with two: the turn
\* requests and loops that read or extend previous_heading.  Two samples are
\* enough here: one in tolerance of a target, one out of it.
HistHeadings == {0, 10}

HistInit ==
    /\ Loaded
    /\ variant \in PModules
    /\ sim = [on |-> FALSE, heading |-> 0]
    /\ calc = NoCalc
    /\ \E two \in BOOLEAN : other = [NoOther EXCEPT !.on = two]

HistNext ==
    \/ \E d \in Deltas, m \in Modes :
           p_turn_incremental(d, m) /\ Park
    \/ \E d \in Deltas, pl \in BOOLEAN, m \in Modes :
           p_turn_pivot_incremental(d, pl, m) /\ Park
    \/ \E cur \in HistHeadings :
           HeadingTick(cur) /\ UNCHANGED <<sim, calc, other>>
    \/ \E cur \in HistHeadings :
           PivotTick(cur) /\ UNCHANGED <<sim, calc, other>>
    \/ Resume /\ UNCHANGED <<sim, calc, other>>
    \/ Switch

HistSpec == HistInit /\ [][HistNext]_vars

\* ------------------------------------------- the helper functions alone
\* Headings of the hub, 0..359, and arguments handed to _wrap_0_360.
Angles == 0 .. (FullTurn - 1)
Degs == (-MaxDeg) .. MaxDeg

\* A call of _wrapped_err(cur, desired) of p_turn.py / p_turn_speed.py with
\* any two headings, or of a file's _wrap_0_360(deg) with any argument.
FnInit ==
    /\ Loaded
    /\ sim = [on |-> FALSE, heading |-> 0]
    /\ other = NoOther
    /\ \/ /\ variant = "PDuty"
          /\ \E a \in Angles, b \in Angles :
                 calc = [NoCalc EXCEPT !.fn = "_wrapped_err", !.a = a, !.b = b]
       \/ \E d \in Degs : calc = [NoCalc EXCEPT !.fn = "_wrap_0_360", !.a = d]

\* The call returns; `back` is the value of the call with the two
\* headings exchanged.
Call_wrapped_err ==
    /\ calc.fn = "_wrapped_err"
    /\ ~calc.done
    /\ calc' = [calc EXCEPT !.out = _wrapped_err(calc.a, calc.b),
                            !.back = _wrapped_err(calc.b, calc.a),
                            !.done = TRUE]
    /\ UNCHANGED <<variant, tracked, left_motor, right_motor, turn, obs,
                   nturns, sim, other>>

Call_wrap_0_360 ==
    /\ calc.fn = "_wrap_0_360"
    /\ ~calc.done
    /\ calc' = [calc EXCEPT !.out = Wrap(variant, calc.a), !.done = TRUE]
    /\ UNCHANGED <<variant, tracked, left_motor, right_motor, turn, obs,
                   nturns, sim, other>>

FnNext == Call_wrapped_err \/ Call_wrap_0_360

FnSpec == FnInit /\ [][FnNext]_vars


\* ================================================================ claims
Running == turn.pc \in {"loop", "yield"}
Returned == turn.pc = "done"
Neutral == {Dc(0), Hold}

\* Magnitude of the command the last tick sent to the driven wheel(s): a
\* pivot turn drives the wheel that is not the pivot.
DrivenMag ==
    IF turn.kind = "pivot" /\ turn.pivot_left
    THEN Abs(turn.dr.val) ELSE Abs(turn.dl.val)

\* outMax: 100 for the duty-cycle files, max_speed for the speed file.
OutMax == IF variant = "PSpeed" THEN max_speed ELSE DcMax

\* C1 (as claimed): every turn loop, in every variant, exits within the
\* tick budget: no turn ever completes more than maxTicks ticks.
C1_ExitsWithinMaxTicks == obs.nticks <= MaxTicks

\* C2: whenever a turn function has returned, by convergence or by timeout,
\* the last command received by each motor is neutral: dc(0) or hold.
C2_NeutralOnReturn ==
    Returned => left_motor \in Neutral /\ right_motor \in Neutral

\* C2 witness: a turn that drove the motors and then returned by timeout.
C2_Witness ==
    Returned /\ obs.outcome = "TimedOut" /\ obs.drives > 0
             /\ turn.dl.op = "run" /\ turn.dl.val # 0

\* C3 (as claimed): in every loop, convergence is declared only after
\* stable_counts_needed consecutive in-tolerance samples.
C3_ConvergedOnlyWhenStable ==
    obs.outcome = "Converged" => obs.streak >= stable_counts_needed

\* C4 (as claimed): a turn that ends by timeout leaves the tracked heading
\* as the request found it.
C4_TimeoutKeepsTracked ==
    (Returned /\ obs.outcome = "TimedOut") => TrackedHeading = obs.baseline

\* C5: in the speed file, with N = max_ms / dt_ms, no turn completes more
\* than N ticks, a turn times out only with exactly N ticks completed, and a
\* turn whose samples were never within tolerance returns timed out having
\* driven on exactly N ticks, with hold commanded on both motors.
C5_TimeoutExact ==
    variant = "PSpeed" =>
        /\ obs.nticks <= max_ms \div dt_ms
        /\ Running /\ turn.pc = "loop" => obs.nticks < max_ms \div dt_ms
        /\ obs.outcome = "TimedOut" => obs.nticks = max_ms \div dt_ms
        /\ (Returned /\ obs.intol = 0) =>
               /\ obs.outcome = "TimedOut"
               /\ obs.drives = max_ms \div dt_ms
               /\ left_motor = Hold /\ right_motor = Hold

\* C5 witness: a speed-mode turn that never sampled within tolerance and has
\* returned.
C5_Witness ==
    variant = "PSpeed" /\ Returned /\ obs.intol = 0 /\ obs.drives = MaxTicks

\* C6 (as claimed): after a relative turn that converged, symmetric or
\* pivot, the baseline of the next relative turn is that turn's target.
C6_BaselineIsTarget ==
    (Returned /\ turn.relative /\ obs.outcome = "Converged") =>
        TrackedHeading = turn.target

\* C7 (as claimed): the target of a relative turn is the wrap of
\* (tracked heading + delta), the tracked heading being 0 at first and
\* then the target of the last relative turn that returned.
C7_TargetFromLastTarget ==
    (Running /\ turn.relative) =>
        turn.target = Wrap(variant, obs.last_target + turn.turn_amount)

C9_Saturation ==
    turn.drove =>
        /\ Abs(turn.dl.val) <= OutMax
        /\ Abs(turn.dr.val) <= OutMax
        /\ Abs(turn.ctl) > OutMax => DrivenMag = OutMax

\* C9 witness: a tick whose control value exceeds outMax.
C9_Witness == turn.drove /\ Abs(turn.ctl) > OutMax /\ Running

\* minEffort of each file: p_turn_c, min_speed, min_rate.
MinEffort ==
    CASE variant = "PDuty" -> p_turn_c
      [] variant = "PSpeed" -> min_speed
      [] variant = "PI" -> pi_min_rate
      [] variant = "PID" -> min_rate

\* C10 (as claimed): a non-zero control value below minEffort is emitted
\* with magnitude exactly minEffort.
C10_FloorIsMax ==
    (turn.drove /\ turn.ctl # 0 /\ Abs(turn.ctl) < MinEffort) =>
        DrivenMag = MinEffort

Min(a, b) == IF a < b THEN a ELSE b
Max(a, b) == IF a > b THEN a ELSE b

\* C10 (amended): the PID file emits max(|control|, min_rate) and the PI
\* file max(|control| + base push, min_rate), both capped at 100; the P
\* files add their floor constant to the proportional term, so the P
\* duty-cycle turn with error 10 commands (+26, -26).
C10_FloorPerFile ==
    turn.drove =>
        /\ variant = "PID" =>
               DrivenMag = Min(Max(Abs(turn.ctl), min_rate), DcMax)
        /\ variant = "PI" =>
               DrivenMag = Min(Max(Abs(turn.ctl) + turn.base_push,
                                   pi_min_rate), DcMax)
        /\ variant = "PDuty" =>
               /\ DrivenMag = Min(Abs(turn.ctl) + p_turn_c, DcMax)
               /\ (turn.kind = "heading" /\ turn.err = 10) =>
                      turn.dl = Dc(26000) /\ turn.dr = Dc(-26000)
        /\ variant = "PSpeed" =>
               DrivenMag \in {Min(Abs(turn.ctl) + min_speed, max_speed),
                              Min(Abs(turn.ctl) + MIN_SPEED_NEAR, max_speed)}

\* C10 witness: the P duty-cycle turn of the example (error 10, control 4)
\* has driven.
C10_Witness ==
    variant = "PDuty" /\ turn.drove /\ turn.kind = "heading"
        /\ turn.err = 10 /\ turn.ctl = 4000 /\ Running

\* ---------------------------------------------------------------- C11
\* C11: with the sensor that halves the remaining error on every tick,
\* every relative turn converges within a bounded number of ticks: a turn
\* started by a relative request never takes more than ConvTicks ticks and
\* never ends by timeout.
C11_ConvergesWithinBound ==
    (sim.on /\ turn.relative) =>
        (obs.nticks <= ConvTicks /\ obs.outcome # "TimedOut")

\* ---------------------------------------------------------------- C12
\* The commands the loop of the other mode (blocking for cooperative,
\* cooperative for blocking) of the same file issues on a tick with the
\* same sample.  Only p_turn_speed.py has two different bodies.
TwinCmd ==
    IF variant = "PSpeed" /\ turn.kind = "heading"
    THEN LET d == IF turn.mode = "sync"
                  THEN PSpeedDriveAsync(turn.err)
                  ELSE PSpeedDriveSync(turn.err)
         IN  <<d.l, d.r>>
    ELSE <<turn.dl, turn.dr>>

\* C12: blocking and cooperative modes issue the same motor commands for
\* the same target and the same samples: on every driving tick the
\* commands issued are those the other mode issues for that sample.
C12_SameCommands ==
    (Running /\ turn.drove) => <<turn.dl, turn.dr>> = TwinCmd

\* ---------------------------------------------------------------- C13
\* C13: for all current and desired headings in [0, 360) the shortest-path
\* error lies in [-180, 180), and it is 0 when current equals desired.
C13_ErrRange ==
    (calc.fn = "_wrapped_err" /\ calc.done) =>
        /\ calc.out >= -180
        /\ calc.out < 180
        /\ (calc.a = calc.b => calc.out = 0)

\* The error from 350 to 10 is 20, across the wrap.
C13_Witness ==
    /\ calc.fn = "_wrapped_err"
    /\ calc.done
    /\ calc.a = 350
    /\ calc.b = 10
    /\ calc.out = 20

\* ---------------------------------------------------------------- C14
\* C14: for headings a, b in [0, 360) the shortest-path error from a to b
\* is minus the error from b to a, except when they are exactly half a
\* turn apart, where both calls return -180.
C14_Antisymmetry ==
    (calc.fn = "_wrapped_err" /\ calc.done) =>
        IF (calc.b - calc.a) % 360 = 180
        THEN calc.out = -180 /\ calc.back = -180
        ELSE calc.out = -calc.back

\* Half a turn apart: 0 and 180.
C14_Witness ==
    /\ calc.fn = "_wrapped_err"
    /\ calc.done
    /\ calc.a = 0
    /\ calc.b = 180
    /\ calc.out = -180
    /\ calc.back = -180

\* ---------------------------------------------------------------- C15
\* C15: in every file _wrap_0_360 returns its argument unchanged when
\* |deg| < 360 (small negatives stay negative, values in [0, 360) are
\* kept) and deg mod 360, a value in [0, 360), otherwise.
C15_Normalize ==
    (calc.fn = "_wrap_0_360" /\ calc.done) =>
        IF Abs(calc.a) < 360
        THEN calc.out = calc.a
        ELSE calc.out = calc.a % 360 /\ calc.out \in Angles

\* ---------------------------------------------------------------- C16
\* A step in which the tracked heading is reset.
ResetStep == obs'.reset /\ ~obs.reset

\* C16: resetting the tracked heading sets it to 0 from any prior value,
\* issues no motor command and changes no other state (no sample is taken:
\* the turn's locals and the tick counts stay as they were); the first
\* relative turn requested afterwards targets _wrap_0_360(delta).
C16_Reset ==
    [][/\ ResetStep =>
            /\ current_heading' = 0
            /\ obs' = [obs EXCEPT !.reset = TRUE]
            /\ UNCHANGED <<variant, previous_heading, prev_heading_num,
                           target_heading, left_motor, right_motor, turn,
                           nturns>>
       /\ (obs'.after_reset /\ turn'.relative) =>
            turn'.desired = _wrap_0_360(turn'.turn_amount)]_vars

\* The tracked heading was 350 and has been reset; the turn after it, by
\* -10, aims at -10.
C16_Witness ==
    /\ obs.after_reset
    /\ obs.last_target = 350
    /\ turn.relative
    /\ turn.turn_amount = -10
    /\ turn.desired = -10
    /\ current_heading = 0

\* ---------------------------------------------------------------- C17
\* C17: no two turns are active at once: while a cooperative turn that has
\* started is suspended short of its end, no other turn is running and has
\* commanded the motors.
C17_OneTurnAtATime ==
    ~(other.active /\ other.turn.pc = "yield" /\ Running /\ turn.drove)

\* ---------------------------------------------------------------- C18
\* A step in which a loop takes a sample and goes on (a tick), and one in
\* which the running turn suspends.
TickStep == obs'.nticks = obs.nticks + 1
Suspends == turn'.pc = "yield" /\ turn.pc # "yield"

\* C18: in cooperative mode each tick has exactly one suspension point,
\* placed after the tick's motor commands: a turn suspends only in the step
\* that sampled and commanded both motors, every cooperative tick ends
\* suspended, a resumption samples nothing and commands nothing unless it
\* ends the turn, and the tracked heading changes only in the step that
\* issues the final stop commands (or by a reset).
C18_OneSuspensionPerTick ==
    [][/\ Suspends =>
            /\ turn.pc = "loop"
            /\ turn'.mode = "async"
            /\ TickStep
            /\ left_motor' = (IF turn'.drove THEN turn'.dl ELSE Hold)
            /\ right_motor' = (IF turn'.drove THEN turn'.dr ELSE Hold)
       /\ (turn.pc = "loop" /\ turn.mode = "async" /\ TickStep) =>
            turn'.pc = "yield"
       /\ turn.pc = "yield" =>
            /\ ~TickStep
            /\ \/ UNCHANGED <<left_motor, right_motor>>
               \/ turn'.pc = "done"
       /\ <<previous_heading, prev_heading_num, current_heading>>' #
              <<previous_heading, prev_heading_num, current_heading>> =>
            \/ ResetStep
            \/ /\ turn'.pc = "done"
               /\ obs'.outcome # "none"
               /\ left_motor' = StopCmd(variant)
               /\ right_motor' = StopCmd(variant)]_vars

\* A cooperative turn is suspended after its second tick's commands.
C18_Witness ==
    /\ turn.pc = "yield"
    /\ turn.mode = "async"
    /\ turn.drove
    /\ obs.nticks = 2
    /\ left_motor = turn.dl
    /\ right_motor = turn.dr

\* ---------------------------------------------------------------- C19
\* The integral gain of the file that runs.
IGain == IF variant = "PI" THEN ki_turn ELSE ki

\* C19: in the PI and PID heading loops the integral term that entered the
\* last tick's control value is at most ki * sum_cap in magnitude, and the
\* stored sum is within [-sum_cap, sum_cap] at every tick boundary.
C19_AntiWindup ==
    (variant \in {"PI", "PID"} /\ turn.kind = "heading") =>
        /\ Abs(turn.iterm) <= (IGain * sum_cap) \div 1000
        /\ Abs(turn.err_sum) <= sum_cap

\* ---------------------------------------------------------------- C20
\* The value whose sign gives the direction: the error in the P files, the
\* control value pid in the PI and PID files.
SignSource == IF variant \in PModules THEN turn.err ELSE turn.ctl

\* C20: on a tick that issues a drive command with the error (or control
\* value) exactly 0, the left wheel gets the positive command and the right
\* wheel the negative one.
C20_ZeroIsPositive ==
    (Running /\ turn.kind = "heading" /\ turn.drove /\ SignSource = 0) =>
        (turn.dl.val > 0 /\ turn.dr.val < 0)

\* ------------------------------------------------------------------ C21
\* Two commands of the same kind, of equal magnitude and opposite sign.
Symmetric(l, r) == l.op = r.op /\ l.val = -r.val

\* C21: in every symmetric turn-in-place loop (p_turn.py, p_turn_speed.py,
\* pi_turn.py heading loops and pid_turn.py's sub_pid), a tick that issues a
\* drive command gives the left and the right motor commands of the same
\* kind, of equal magnitude and of opposite sign (left = -right), floor and
\* saturation applied, and the magnitude is not zero.
C21_LeftIsMinusRight ==
    (turn.kind = "heading" /\ turn.drove) =>
        /\ Symmetric(turn.dl, turn.dr)
        /\ turn.dl.val # 0
        /\ Running => (left_motor = turn.dl /\ right_motor = turn.dr)

\* A tick of a heading loop drove both motors at saturation, in opposite
\* directions, and the loop is still running.
C21_Witness ==
    /\ turn.kind = "heading" /\ turn.drove /\ Running
    /\ Abs(turn.dl.val) = OutMax
    /\ left_motor = turn.dl /\ right_motor = turn.dr
    /\ right_motor.val = -left_motor.val

\* ------------------------------------------------------------------ C22
\* The last command received by the pivot wheel and by the other wheel, and
\* the commands the last drive tick recorded for them.
PivotMotor == IF turn.pivot_left THEN left_motor ELSE right_motor
OuterMotor == IF turn.pivot_left THEN right_motor ELSE left_motor
PivotCmd == IF turn.pivot_left THEN turn.dl ELSE turn.dr
OuterCmd == IF turn.pivot_left THEN turn.dr ELSE turn.dl

\* C22: in every pivot turn, from the first tick to the return, the pivot
\* wheel (left when pivot_left is true, right otherwise) only ever receives
\* zero or hold, and only the other wheel receives non-zero drive commands:
\* once the loop has run a tick or returned, the pivot wheel's last command
\* is neutral, every drive tick commanded the pivot wheel neutral and the
\* other wheel non-zero, and while the loop runs the other wheel carries that
\* command.
C22_PivotWheelNeutral ==
    turn.kind = "pivot" =>
        /\ (turn.drove \/ Returned) => PivotMotor \in Neutral
        /\ turn.drove =>
              /\ PivotCmd \in Neutral
              /\ OuterCmd \notin Neutral /\ OuterCmd.val # 0
              /\ Running => (PivotMotor = PivotCmd /\ OuterMotor = OuterCmd)

\* A pivot loop around the right wheel has driven: the right motor was
\* commanded neutral and the left motor drives.
C22_Witness ==
    /\ turn.kind = "pivot" /\ ~turn.pivot_left /\ turn.drove /\ Running
    /\ right_motor \in Neutral
    /\ left_motor \notin Neutral /\ left_motor.val # 0

\* ------------------------------------------------------------------ C23
\* C23: in the P variants (p_turn.py, p_turn_speed.py), which keep the
\* tracked heading as the list previous_heading and the index
\* prev_heading_num, in every state, after any sequence of completed turns
\* and at every suspension point of interleaved cooperative turns, the index
\* is the list length minus 1 (the list is indexed from 0 in the files and
\* from 1 here), so the baseline read previous_heading[prev_heading_num] is
\* in range and is the last element of the list; when the running turn is a
\* heading turn that has returned, that element is its target.
C23_IndexIsLast ==
    variant \in PModules =>
        /\ prev_heading_num = Len(previous_heading) - 1
        /\ prev_heading_num + 1 \in DOMAIN previous_heading
        /\ TrackedHeading = previous_heading[Len(previous_heading)]
        /\ (Returned /\ turn.kind = "heading") => TrackedHeading = turn.desired

\* A cooperative heading turn of a P file is suspended in its wait while the
\* other task's heading turn, started from the same baseline, has returned
\* and appended its target.
C23_Witness ==
    /\ variant \in PModules
    /\ turn.pc = "yield" /\ turn.kind = "heading"
    /\ Len(previous_heading) = 2 /\ prev_heading_num = 1
    /\ obs.baseline = previous_heading[1]
    /\ previous_heading[2] # previous_heading[1]

=============================================================================
